---- MODULE Spec2Model ----
(***************************************************************************)
(* Two-stage image captioning: the captioning stage (BLIP), the            *)
(* enhancement stage (Gemini), the pipeline orchestrator and their error   *)
(* classification.                                                         *)
(*                                                                         *)
(* Text is a sequence of one-character strings, so that strip, replace,    *)
(* lower and the substring test are computed character by character.       *)
(* Python's None is the value None below where a caption may be absent.    *)
(***************************************************************************)
EXTENDS Naturals, Sequences, FiniteSets, TLC

VARIABLES
    fs,         \* the file system: path -> "missing" | "corrupt" | "valid"
    captioner,  \* the shared src.app.caption.CaptionModel: processor, model, eval
    enhancer,   \* the src.app.enhancer.CaptionEnhancer object, or NoObject
    pipeline,   \* the app.pipeline.CaptionPipeline object: "unbuilt" | "built"
    last,       \* the last call made: its operation, inputs, outcome and the calls it made
    sessions    \* the concurrent requests of the front end: where each one stands

vars == <<fs, captioner, enhancer, pipeline, last, sessions>>

---------------------------------------------------------------------------
(* Bounds of the model.                                                    *)

\* longest caption and longest raw model text, in characters
MaxStrLen == 3
\* most fragments a remote diagnostic text is built from
MaxFrags == 2
\* most entries the remote model listing holds
MaxModels == 3

---------------------------------------------------------------------------
(* Text.                                                                   *)

SPACE == " "
QUOTE == "\""
Chars == {SPACE, QUOTE, "a"}
None == <<"None">>

StringsUpTo(n) == UNION {[1..k -> Chars] : k \in 0..n}

IsSpace(c) == c = SPACE

RECURSIVE lstrip(_)
lstrip(s) ==
    IF s = <<>> THEN <<>>
    ELSE IF IsSpace(Head(s)) THEN lstrip(Tail(s))
    ELSE s

RECURSIVE rstrip(_)
rstrip(s) ==
    IF s = <<>> THEN <<>>
    ELSE IF IsSpace(s[Len(s)]) THEN rstrip(SubSeq(s, 1, Len(s) - 1))
    ELSE s

\* str.strip()
strip(s) == rstrip(lstrip(s))

\* str.replace(old, '') for a one-character old
replace_char(s, old) == SelectSeq(s, LAMBDA c : c # old)

UPPER == <<"A","B","C","D","E","F","G","H","I","J","K","L","M",
           "N","O","P","Q","R","S","T","U","V","W","X","Y","Z">>
LOWER == <<"a","b","c","d","e","f","g","h","i","j","k","l","m",
           "n","o","p","q","r","s","t","u","v","w","x","y","z">>

lower_char(c) ==
    IF \E i \in 1..Len(UPPER) : UPPER[i] = c
    THEN LOWER[CHOOSE i \in 1..Len(UPPER) : UPPER[i] = c]
    ELSE c

\* str.lower()
lower(s) == [i \in 1..Len(s) |-> lower_char(s[i])]

\* pat in s
contains(s, pat) ==
    \E i \in 1..(Len(s) + 1) :
        /\ i + Len(pat) - 1 <= Len(s)
        /\ SubSeq(s, i, i + Len(pat) - 1) = pat

RECURSIVE concat(_)
concat(ss) == IF ss = <<>> THEN <<>> ELSE Head(ss) \o concat(Tail(ss))

---------------------------------------------------------------------------
(* Outcomes of a call.  kind is "ok" or the class of the exception that    *)
(* leaves the call; message and details are the fields of                  *)
(* ImageCaptioningError (a message is the sequence of the parts it is      *)
(* formatted from); calls lists the collaborators invoked, in order.       *)

DomainErrors ==
    {"APIConfigurationError", "ModelNetworkError", "ModelTimeoutError",
     "ResourceLimitError", "ImageNotFoundError", "InvalidImageError",
     "CaptionGenerationError", "EnhancementError"}

Return(value, calls) ==
    [kind |-> "ok", message |-> <<>>, details |-> None, value |-> value, calls |-> calls]

Raise(kind, message, details, calls) ==
    [kind |-> kind, message |-> message, details |-> details, value |-> None, calls |-> calls]

InSeq(x, s) == \E i \in 1..Len(s) : s[i] = x

---------------------------------------------------------------------------
(* Enhancement stage: src.app.enhancer.CaptionEnhancer (Gemini).           *)

NoObject == [model_type |-> "none", model |-> "None"]

priority_list ==
    <<"models/gemini-1.5-flash", "models/gemini-1.5-pro", "models/gemini-pro">>

\* [m.name for m in genai.list_models() if 'generateContent' in m.supported_generation_methods]
available_models(listing) ==
    LET kept == SelectSeq(listing, LAMBDA m : m.generateContent)
    IN  [i \in 1..Len(kept) |-> kept[i].name]

\* the for/break loop over priority_list, then the fallback to available_models[0]
select_model_FirstAvailable(available) == available[1]
select_model(available) ==
    LET hits == {i \in 1..Len(priority_list) : InSeq(priority_list[i], available)}
    IN  IF hits # {}
        THEN priority_list[CHOOSE i \in hits : \A j \in hits : i <= j]
        ELSE available[1]

\* except Exception as e: raise APIConfigurationError(f"API initialization failed: {e}",
\*                                                    details=str(e)) from e
\* raised is the class of e, text is str(e)
wrap_init_failure_Reraise(raised, text, calls) ==
    Raise(raised, <<text>>, <<text>>, calls)
wrap_init_failure(raised, text, calls) ==
    Raise("APIConfigurationError", <<"API initialization failed: ", text>>, <<text>>, calls)

\* CaptionEnhancer.__init__(model_type): api_key is what os.getenv returns
\* ("None" when unset); env gives what configure, list_models and
\* GenerativeModel do ("ok" or the class of the exception they raise).
CaptionEnhancer_init(model_type, api_key, env) ==
    IF model_type # "cloud"
    THEN [Return(None, <<>>) EXCEPT !.value = [model_type |-> model_type, model |-> "None"]]
    ELSE IF api_key \in {"None", ""}
    THEN Raise("APIConfigurationError",
               <<"API Key missing. Please check your .env file.">>,
               <<"GEMINI_API_KEY environment variable is required.">>,
               <<"getenv">>)
    ELSE IF env.configure # "ok"
    THEN wrap_init_failure(env.configure, "configure failed", <<"getenv", "configure">>)
    ELSE IF env.list_models # "ok"
    THEN wrap_init_failure(env.list_models, "list_models failed",
                           <<"getenv", "configure", "list_models">>)
    ELSE IF available_models(env.listing) = <<>>
    THEN \* the EnhancementError is raised inside the try
         wrap_init_failure("EnhancementError",
                           "No generative models available for this API key.",
                           <<"getenv", "configure", "list_models">>)
    ELSE IF env.GenerativeModel # "ok"
    THEN wrap_init_failure(env.GenerativeModel, "GenerativeModel failed",
                           <<"getenv", "configure", "list_models", "GenerativeModel">>)
    ELSE [Return(None, <<"getenv", "configure", "list_models", "GenerativeModel">>)
            EXCEPT !.value = [model_type |-> model_type,
                              model |-> select_model(available_models(env.listing))]]

\* what genai.list_models() yields: the three preferred models and two others,
\* each supporting generateContent, and the first preferred one not supporting it
ModelNames == {priority_list[i] : i \in 1..Len(priority_list)}
                 \cup {"models/gemini-2.0-flash", "models/gemma-3"}
ModelInfos == [name : ModelNames, generateContent : {TRUE}]
                 \cup [name : {priority_list[1]}, generateContent : {FALSE}]
Listings == UNION {[1..k -> ModelInfos] : k \in 0..MaxModels}
OneListing == <<[name |-> priority_list[1], generateContent |-> TRUE]>>
OneInitEnv ==
    [configure |-> "ok", list_models |-> "ok", listing |-> OneListing, GenerativeModel |-> "ok"]
\* the remote service answers with any listing, or one of its calls raises
InitEnvs ==
    [configure : {"ok"}, list_models : {"ok"}, listing : Listings, GenerativeModel : {"ok"}]
        \cup {[OneInitEnv EXCEPT !.configure = "RuntimeError"],
              [OneInitEnv EXCEPT !.list_models = "ConnectionError"],
              [OneInitEnv EXCEPT !.GenerativeModel = "ValueError"]}
FailingInitEnvs == {e \in InitEnvs : e.listing = OneListing}
ApiKeys == {"None", "", "key"}
ConstructInputs ==
    [model_type : {"cloud"}, api_key : {"key"}, env : InitEnvs]
        \cup [model_type : {"cloud"}, api_key : ApiKeys, env : FailingInitEnvs]
        \cup [model_type : {"local"}, api_key : ApiKeys, env : {OneInitEnv}]

\* a process evaluates enhancer = CaptionEnhancer(model_type): on an exception
\* the name is not rebound
Construct(model_type, api_key, env) ==
    LET r == CaptionEnhancer_init(model_type, api_key, env)
    IN  /\ enhancer' = IF r.kind = "ok" THEN r.value ELSE enhancer
        /\ last' = [op |-> "CaptionEnhancer", model_type |-> model_type,
                    api_key |-> api_key, env |-> env, out |-> r]
        /\ UNCHANGED <<sessions, fs, captioner, pipeline>>

\* the except clause of _run_cloud_inference: e is the exception, text is str(e)
classify_cloud_error_QuotaFirst(text, calls) ==
    LET err_msg == lower(text)
    IN  IF contains(err_msg, <<"q","u","o","t","a">>) \/ contains(err_msg, <<"4","2","9">>)
        THEN Raise("ResourceLimitError", <<"Gemini API quota exhausted">>, text, calls)
        ELSE IF contains(err_msg, <<"a","p","i","_","k","e","y">>)
                \/ contains(err_msg, <<"4","0","3">>)
        THEN Raise("APIConfigurationError", <<"Invalid Gemini API Key">>, text, calls)
        ELSE IF contains(err_msg, <<"n","e","t","w","o","r","k">>)
                \/ contains(err_msg, <<"c","o","n","n","e","c","t","i","o","n">>)
        THEN Raise("ModelNetworkError", <<"Please check your internet connection">>, text, calls)
        ELSE Raise("EnhancementError", <<"Enhancement failed">>, text, calls)
classify_cloud_error(text, calls) ==
    LET err_msg == lower(text)
    IN  IF contains(err_msg, <<"a","p","i","_","k","e","y">>)
           \/ contains(err_msg, <<"4","0","3">>)
        THEN Raise("APIConfigurationError", <<"Invalid Gemini API Key">>, text, calls)
        ELSE IF contains(err_msg, <<"q","u","o","t","a">>) \/ contains(err_msg, <<"4","2","9">>)
        THEN Raise("ResourceLimitError", <<"Gemini API quota exhausted">>, text, calls)
        ELSE IF contains(err_msg, <<"n","e","t","w","o","r","k">>)
                \/ contains(err_msg, <<"c","o","n","n","e","c","t","i","o","n">>)
        THEN Raise("ModelNetworkError", <<"Please check your internet connection">>, text, calls)
        ELSE Raise("EnhancementError", <<"Enhancement failed">>, text, calls)

\* response.text.strip().replace('"', '')
clean_response(text) == replace_char(strip(text), QUOTE)

\* CaptionEnhancer._run_cloud_inference(caption): remote is what
\* self.model.generate_content does: a response with a text
\* ("text"), no response ("none"), or an exception with a diagnostic text ("raise")
CaptionEnhancer_run_cloud_inference(self, caption, remote) ==
    LET calls == <<"generate_content">>
    IN  IF remote.type = "raise"
        THEN classify_cloud_error(remote.text, calls)
        ELSE IF remote.type = "text" /\ remote.text # <<>>
        THEN Return(clean_response(remote.text), calls)
        ELSE Return(caption, calls)

\* the guard of enhance: not caption or len(caption.strip()) < 3 or not self.model
MinCaptionLen == 3
nothing_to_enhance_NoStrip(self, caption) ==
    \/ caption = None
    \/ caption = <<>>
    \/ Len(caption) < MinCaptionLen
    \/ self.model = "None"
nothing_to_enhance(self, caption) ==
    \/ caption = None
    \/ caption = <<>>
    \/ Len(strip(caption)) < MinCaptionLen
    \/ self.model = "None"

\* CaptionEnhancer.enhance(caption)
CaptionEnhancer_enhance(self, caption, remote) ==
    IF nothing_to_enhance(self, caption)
    THEN Return(caption, <<>>)
    ELSE IF self.model_type = "cloud"
    THEN CaptionEnhancer_run_cloud_inference(self, caption, remote)
    ELSE Return(caption, <<>>)

\* diagnostic texts of the remote service, built from fragments
Fragments ==
    {<<"4","0","3">>, <<"4","2","9">>, <<"A","P","I","_","K","E","Y">>,
     <<"a","p","i","_","k","e","y">>, <<"Q","u","o","t","a">>,
     <<"N","e","t","w","o","r","k">>,
     <<"c","o","n","n","e","c","t","i","o","n">>,
     <<"4">>, <<"0","3">>, <<"e","r","r","o","r">>}
Diagnostics == {concat(fs_) : fs_ \in UNION {[1..k -> Fragments] : k \in 0..MaxFrags}}

Captions == StringsUpTo(MaxStrLen) \cup {None}
RemoteTexts == [type : {"text"}, text : StringsUpTo(MaxStrLen)]
                  \cup {[type |-> "none", text |-> <<>>]}
RemoteFailures == [type : {"raise"}, text : Diagnostics]
LongCaption == <<"a", SPACE, "a">>
SampleCaptions == {LongCaption, <<"a", QUOTE, "a">>}
SampleRemotes ==
    [type : {"text"}, text : {<<>>, <<SPACE>>, <<"a">>, <<QUOTE, "a", QUOTE>>}]
        \cup {[type |-> "none", text |-> <<>>]}
        \cup [type : {"raise"},
              text : {<<"4","0","3">>, <<"4","2","9">>, <<"N","e","t","w","o","r","k">>,
                      <<"e","r","r","o","r">>}]
\* every caption with some remote outcomes, and every model text on some captions
EnhanceInputs ==
    [caption : Captions, remote : SampleRemotes]
        \cup [caption : SampleCaptions, remote : RemoteTexts]

\* a request calls enhancer.enhance(caption) on the constructed enhancer
Enhance(caption, remote) ==
    /\ enhancer # NoObject
    /\ last' = [op |-> "enhance", caption |-> caption, remote |-> remote,
                out |-> CaptionEnhancer_enhance(enhancer, caption, remote)]
    /\ UNCHANGED <<sessions, fs, captioner, enhancer, pipeline>>

---------------------------------------------------------------------------
(* Captioning stage: src.app.caption.CaptionModel (BLIP, loaded lazily).   *)

Paths == {"missing.jpg", "corrupt.jpg", "valid.jpg"}

\* os.path.exists(path)
exists(files, path) == files[path] # "missing"

\* CaptionModel.__init__: processor and model are None
NewCaptionModel == [processor |-> "None", model |-> "None", eval |-> FALSE]

\* CaptionModel._load_model(): load is what the library does, "ok" or the
\* step that raises.  The result carries the object as the call leaves it.
LoadOutcomes == {"ok", "BlipProcessor.from_pretrained",
                 "BlipForConditionalGeneration.from_pretrained", "model.to"}

load_failed(self, step, calls) ==
    [self |-> self,
     out |-> Raise("CaptionGenerationError",
                   <<"Failed to load caption model: ", step>>, <<step>>, calls)]

CaptionModel_load_model(self, load) ==
    IF self.model # "None"
    THEN [self |-> self, out |-> Return(None, <<>>)]
    ELSE IF load = "BlipProcessor.from_pretrained"
    THEN load_failed(self, load, <<"BlipProcessor.from_pretrained">>)
    ELSE IF load = "BlipForConditionalGeneration.from_pretrained"
    THEN load_failed([self EXCEPT !.processor = "obj"], load,
                     <<"BlipProcessor.from_pretrained",
                       "BlipForConditionalGeneration.from_pretrained">>)
    ELSE IF load = "model.to"
    THEN load_failed([self EXCEPT !.processor = "obj", !.model = "obj"], load,
                     <<"BlipProcessor.from_pretrained",
                       "BlipForConditionalGeneration.from_pretrained", "model.to">>)
    ELSE [self |-> [processor |-> "obj", model |-> "obj", eval |-> TRUE],
          out |-> Return(None, <<"BlipProcessor.from_pretrained",
                                 "BlipForConditionalGeneration.from_pretrained",
                                 "model.to", "model.eval">>)]

\* the inference try block of generate: the processor call, model.generate
\* and processor.decode, each of which may raise torch.cuda.OutOfMemoryError
\* or another Exception
InferSteps == <<"processor", "model.generate", "processor.decode">>
InferOutcomes ==
    {[step |-> 0, raised |-> "ok"]}
        \cup [step : 1..Len(InferSteps), raised : {"OutOfMemoryError", "RuntimeError"}]

\* the except clauses of the inference try block
classify_inference_error_AllGeneric(raised, calls) ==
    Raise("CaptionGenerationError", <<"Caption generation failed.">>, <<raised>>, calls)
classify_inference_error(raised, calls) ==
    IF raised = "OutOfMemoryError"
    THEN Raise("ResourceLimitError",
               <<"Model inference failed due to GPU memory limits. ",
                 "Try reducing the batch size or using a smaller model.">>,
               <<"Out of GPU memory during caption generation.">>, calls)
    ELSE Raise("CaptionGenerationError", <<"Caption generation failed.">>, <<raised>>, calls)

run_inference(infer, text, calls) ==
    IF infer.raised = "ok"
    THEN Return(text, calls \o InferSteps)
    ELSE classify_inference_error(infer.raised, calls \o SubSeq(InferSteps, 1, infer.step))

\* the two input checks of generate, then the inference
check_and_infer_InferFirst(files, path, env, calls) ==
    LET r == run_inference(env.infer, env.text, calls)
    IN  IF r.kind # "ok" THEN r
        ELSE IF ~exists(files, path)
        THEN Raise("ImageNotFoundError", <<path>>, None, r.calls \o <<"os.path.exists">>)
        ELSE IF files[path] = "corrupt"
        THEN Raise("InvalidImageError", <<"cannot identify image file">>,
                   <<"cannot identify image file">>,
                   r.calls \o <<"os.path.exists", "Image.open">>)
        ELSE r
check_and_infer(files, path, env, calls) ==
    IF ~exists(files, path)
    THEN Raise("ImageNotFoundError", <<path>>, None, calls \o <<"os.path.exists">>)
    ELSE IF files[path] = "corrupt"
    THEN Raise("InvalidImageError", <<"cannot identify image file">>,
               <<"cannot identify image file">>, calls \o <<"os.path.exists", "Image.open">>)
    ELSE run_inference(env.infer, env.text, calls \o <<"os.path.exists", "Image.open">>)

\* CaptionModel.generate(image_path)
CaptionModel_generate(self, files, path, env) ==
    LET l == CaptionModel_load_model(self, env.load)
    IN  IF l.out.kind # "ok"
        THEN l
        ELSE [self |-> l.self, out |-> check_and_infer(files, path, env, l.out.calls)]

\* captions the BLIP decoder yields
BaseCaptions == {<<>>, <<"a">>, <<"a", SPACE, "a">>}
CaptionEnvs == [load : LoadOutcomes, infer : InferOutcomes, text : BaseCaptions]

\* a caller invokes captioner.generate(path) on the shared CaptionModel
Generate(path, env) ==
    LET r == CaptionModel_generate(captioner, fs, path, env)
    IN  /\ captioner' = r.self
        /\ last' = [op |-> "generate", path |-> path, env |-> env,
                    before |-> captioner, out |-> r.out]
        /\ UNCHANGED <<sessions, fs, enhancer, pipeline>>

\* a caller invokes captioner._load_model() on the shared CaptionModel
LoadModel(load) ==
    LET r == CaptionModel_load_model(captioner, load)
    IN  /\ captioner' = r.self
        /\ last' = [op |-> "_load_model", env |-> [load |-> load],
                    before |-> captioner, out |-> r.out]
        /\ UNCHANGED <<sessions, fs, enhancer, pipeline>>

\* an exception raised by self.generate(p) leaves the list comprehension of
\* generate_batch
comprehension_stops_Never(out) == FALSE
comprehension_stops(out) == out.kind # "ok"

\* [self.generate(p) for p in image_paths]: the references in list order, on
\* the one CaptionModel; items[i] holds reference i and what the inference
\* does when it runs on it
RECURSIVE comprehension(_, _, _, _, _)
comprehension(self, files, items, load, acc) ==
    IF items = <<>>
    THEN [self |-> self, out |-> Return(acc.values, acc.calls)]
    ELSE LET item == Head(items)
             r == CaptionModel_generate(self, files, item.path,
                      [load |-> load, infer |-> item.infer, text |-> item.text])
             calls == acc.calls \o r.out.calls
         IN  IF comprehension_stops(r.out)
             THEN [self |-> r.self, out |-> [r.out EXCEPT !.calls = calls]]
             ELSE comprehension(r.self, files, Tail(items), load,
                      [values |-> Append(acc.values, r.out.value), calls |-> calls])

\* CaptionModel.generate_batch(image_paths)
CaptionModel_generate_batch(self, files, items, load) ==
    comprehension(self, files, items, load, [values |-> <<>>, calls |-> <<>>])

MaxBatch == 2
BatchItems ==
    [path : Paths, infer : {[step |-> 0, raised |-> "ok"]},
     text : {<<"a">>, <<"a", SPACE, "a">>}]
        \cup [path : {"valid.jpg"}, infer : {[step |-> 2, raised |-> "OutOfMemoryError"]},
              text : {<<"a">>}]
Batches == UNION {[1..n -> BatchItems] : n \in 0..MaxBatch}
BatchLoads == {"ok", "BlipProcessor.from_pretrained"}

\* a caller invokes captioner.generate_batch(image_paths) on the shared CaptionModel
GenerateBatch(items, load) ==
    LET r == CaptionModel_generate_batch(captioner, fs, items, load)
    IN  /\ captioner' = r.self
        /\ last' = [op |-> "generate_batch", items |-> items, load |-> load,
                    before |-> captioner, out |-> r.out]
        /\ UNCHANGED <<sessions, fs, enhancer, pipeline>>

---------------------------------------------------------------------------
(* Pipeline orchestrator: app.pipeline.CaptionPipeline, over               *)
(* app.caption_model.CaptionModel (BLIP, loaded in the constructor) and    *)
(* app.enhancer.CaptionEnhancer (flan-t5).                                 *)

\* app.caption_model.CaptionModel.generate(image_path): every exception of
\* the inference try block becomes CaptionGenerationError
app_CaptionModel_generate(files, path, env) ==
    IF ~exists(files, path)
    THEN Raise("ImageNotFoundError", <<"Image not found: ", path>>, None,
               <<"caption_model.generate", "os.path.exists">>)
    ELSE IF files[path] = "corrupt"
    THEN Raise("InvalidImageError", <<"Invalid image file: ", "cannot identify image file">>,
               None, <<"caption_model.generate", "os.path.exists", "Image.open">>)
    ELSE IF env.infer.raised # "ok"
    THEN Raise("CaptionGenerationError", <<"Caption generation failed: ", env.infer.raised>>,
               None,
               <<"caption_model.generate", "os.path.exists", "Image.open">>
                   \o SubSeq(InferSteps, 1, env.infer.step))
    ELSE Return(env.text,
                <<"caption_model.generate", "os.path.exists", "Image.open">> \o InferSteps)

\* app.enhancer.CaptionEnhancer.enhance(caption): rewrite is what the
\* tokenizer, model.generate and decode do, a text or an exception
app_CaptionEnhancer_enhance(caption, rewrite) ==
    IF caption = None \/ caption = <<>> \/ strip(caption) = <<>>
    THEN Raise("EnhancementError", <<"Caption is empty">>, None, <<"caption_enhancer.enhance">>)
    ELSE IF rewrite.type = "raise"
    THEN Raise("EnhancementError", <<"Enhancement failed: ">> \o rewrite.text, None,
               <<"caption_enhancer.enhance", "tokenizer", "model.generate">>)
    ELSE Return(strip(rewrite.text),
                <<"caption_enhancer.enhance", "tokenizer", "model.generate", "tokenizer.decode">>)

\* the methods class app.enhancer.CaptionEnhancer defines, besides __init__
app_CaptionEnhancer_methods == {"enhance"}

\* the parameters of generate_caption, besides self
generate_caption_params == {"image_path"}

\* if not os.path.exists(image_path): raise ImageNotFoundError
pipeline_image_exists_Unchecked(files, path) == TRUE
pipeline_image_exists(files, path) == exists(files, path)

\* CaptionPipeline.generate_caption(image_path, **kwargs): kwargs is the set
\* of keyword arguments of the call, as (name, value) pairs
CaptionPipeline_generate_caption(files, path, kwargs, env) ==
    IF \E kw \in kwargs : kw[1] \notin generate_caption_params
    THEN Raise("TypeError", <<"generate_caption() got an unexpected keyword argument">>,
               None, <<>>)
    ELSE IF ~pipeline_image_exists(files, path)
    THEN Raise("ImageNotFoundError", <<"Image not found: ", path>>, None, <<"os.path.exists">>)
    ELSE
        LET c == app_CaptionModel_generate(files, path, env)
            calls == <<"os.path.exists">> \o c.calls
        IN  IF c.kind # "ok"
            THEN [c EXCEPT !.calls = calls]
            ELSE IF "enhance_caption" \notin app_CaptionEnhancer_methods
            THEN Raise("AttributeError",
                       <<"'CaptionEnhancer' object has no attribute 'enhance_caption'">>,
                       None, calls)
            ELSE LET e == app_CaptionEnhancer_enhance(c.value, env.rewrite)
                 IN  [e EXCEPT !.calls = calls \o e.calls]

\* CaptionPipeline.__init__: CaptionModel() then CaptionEnhancer(), each
\* loading its model and raising its own error kind on failure
CaptionPipeline_init(load) ==
    IF load.caption_model # "ok"
    THEN Raise("CaptionGenerationError", <<"Failed to load caption model: ", load.caption_model>>,
               None, <<"CaptionModel">>)
    ELSE IF load.enhancer # "ok"
    THEN Raise("EnhancementError", <<"Failed to load enhancement model: ", load.enhancer>>,
               None, <<"CaptionModel", "CaptionEnhancer">>)
    ELSE Return(None, <<"CaptionModel", "CaptionEnhancer">>)

PipelineLoads == [caption_model : {"ok", "OSError"}, enhancer : {"ok", "OSError"}]
Kwargs == {{}, {<<"enhance", TRUE>>}, {<<"enhance", FALSE>>}}
Rewrites == {[type |-> "text", text |-> <<SPACE, "a", QUOTE>>],
             [type |-> "raise", text |-> <<"RuntimeError">>]}
PipelineEnvs == [infer : InferOutcomes, text : BaseCaptions, rewrite : Rewrites]

\* a front end constructs the pipeline
BuildPipeline(load) ==
    LET r == CaptionPipeline_init(load)
    IN  /\ pipeline' = IF r.kind = "ok" THEN "built" ELSE pipeline
        /\ last' = [op |-> "CaptionPipeline", load |-> load, out |-> r]
        /\ UNCHANGED <<sessions, fs, captioner, enhancer>>

\* a front end calls pipeline.generate_caption(path, **kwargs)
GenerateCaption(path, kwargs, env) ==
    /\ pipeline = "built"
    /\ last' = [op |-> "generate_caption", path |-> path, kwargs |-> kwargs, env |-> env,
                out |-> CaptionPipeline_generate_caption(fs, path, kwargs, env)]
    /\ UNCHANGED <<sessions, fs, captioner, enhancer, pipeline>>

---------------------------------------------------------------------------
(* Streamlit front end: src/api/gui.py in both source trees.  A request    *)
(* decodes the upload, writes it to temp_path, runs the two stages on the  *)
(* models of load_models and renders the outcome.  screen lists the        *)
(* widgets drawn: the widget and the parts its text is formatted from.     *)

temp_path == "temp_image.jpg"
Files == Paths \cup {temp_path}

\* what the upload holds
Uploads == {"image", "undecodable"}

\* what image.save(temp_path) does: it writes the file, or raises before the
\* file is opened, or raises after it opened the file for writing; in the
\* last case the library may remove a file this call created, and otherwise
\* the half-written file stays (the script also fails here on an image
\* whose mode JPEG cannot store)
SaveOutcomes == {"ok", "raises, no file", "raises, file removed", "raises, file left"}

image_save(files, save) ==
    IF save = "ok" THEN [files EXCEPT ![temp_path] = "valid"]
    ELSE IF save = "raises, no file" THEN files
    ELSE IF save = "raises, file removed" /\ ~exists(files, temp_path) THEN files
    ELSE [files EXCEPT ![temp_path] = "corrupt"]

\* the classes named by the except clauses of the front end
CaughtErrors ==
    {"APIConfigurationError", "ModelNetworkError", "EnhancementError",
     "CaptionGenerationError", "ImageNotFoundError", "InvalidImageError",
     "ResourceLimitError"}

Widget(widget, text) == [widget |-> widget, text |-> text]

\* the except clauses of process_uploaded_file
render_error(e) ==
    IF e.kind \in CaughtErrors
    THEN <<Widget("error", <<"Error: ">> \o e.message)>>
    ELSE <<Widget("error", <<"Unexpected error occurred: ">> \o e.message)>>

\* the except clauses of the script: one per class, each with its title
ErrorTitle(kind) ==
    CASE kind = "APIConfigurationError" -> "API Configuration Error: "
      [] kind = "ModelNetworkError" -> "Network Error: "
      [] kind = "EnhancementError" -> "Enhancement Error: "
      [] kind = "CaptionGenerationError" -> "Caption Generation Error: "
      [] kind = "ImageNotFoundError" -> "Image Not Found Error: "
      [] kind = "InvalidImageError" -> "Invalid Image Error: "
      [] kind = "ResourceLimitError" -> "Resource Limit Error: "
      [] OTHER -> "Unexpected error occurred: "

script_render_error(e) ==
    IF e.kind \in CaughtErrors
    THEN <<Widget("error", <<ErrorTitle(e.kind)>> \o e.message)>>
             \o (IF e.details # None /\ e.details # <<>>
                 THEN <<Widget("write", <<"Details: ">> \o e.details)>>
                 ELSE <<>>)
    ELSE <<Widget("error", <<ErrorTitle(e.kind)>> \o e.message)>>

\* the try block: captioner.generate(temp_path), enhancer.enhance(base_caption)
\* and the two result columns; on an exception, the widgets of the except
\* clause that render takes from the front end in use
run_stages(self, enh, files, env, front_end) ==
    LET g == CaptionModel_generate(self, files, temp_path, env)
        e == CaptionEnhancer_enhance(enh, g.out.value, env.remote)
        render(err) == IF front_end = "script" THEN script_render_error(err)
                       ELSE render_error(err)
    IN  IF g.out.kind # "ok"
        THEN [self |-> g.self, error |-> g.out, screen |-> render(g.out),
              calls |-> <<"captioner.generate">>]
        ELSE IF e.kind # "ok"
        THEN [self |-> g.self, error |-> e, screen |-> render(e),
              calls |-> <<"captioner.generate", "enhancer.enhance">>]
        ELSE [self |-> g.self, error |-> e,
              screen |-> <<Widget("info", g.out.value), Widget("success", e.value)>>,
              calls |-> <<"captioner.generate", "enhancer.enhance">>]

\* the finally clause: if os.path.exists(temp_path): os.remove(temp_path)
remove_temp(files) ==
    IF exists(files, temp_path) THEN [files EXCEPT ![temp_path] = "missing"] ELSE files

\* process_uploaded_file(uploaded_file, captioner, enhancer), and the same
\* steps at module level in the script.  exit is "return" or the exception
\* that leaves the request.
process_uploaded_file(self, enh, files, upload, env, front_end) ==
    IF upload = "undecodable"
    THEN [self |-> self, files |-> files, exit |-> "UnidentifiedImageError",
          error |-> Return(None, <<>>), screen |-> <<>>, calls |-> <<"Image.open">>]
    ELSE LET shown == <<Widget("image", <<"Your uploaded image">>)>>
             saved == image_save(files, env.save)
             r == run_stages(self, enh, saved, env, front_end)
         IN  IF env.save # "ok"
             THEN [self |-> self, files |-> saved, exit |-> "OSError",
                   error |-> Return(None, <<>>), screen |-> shown,
                   calls |-> <<"Image.open", "image.save">>]
             ELSE [self |-> r.self, files |-> remove_temp(saved), exit |-> "return",
                   error |-> r.error, screen |-> shown \o r.screen,
                   calls |-> <<"Image.open", "image.save">> \o r.calls \o <<"finally">>]

FrontEnds == {"process_uploaded_file", "script"}
DefaultGuiEnv ==
    [save |-> "ok", load |-> "ok", infer |-> [step |-> 0, raised |-> "ok"],
     text |-> LongCaption, remote |-> [type |-> "text", text |-> <<"a">>]]
\* every upload with every outcome of the save, every outcome of the
\* captioning stage, and the outcomes of the enhancement stage
GuiInputs ==
    [upload : Uploads,
     env : {[DefaultGuiEnv EXCEPT !.save = s] : s \in SaveOutcomes}]
        \cup [upload : {"image"},
              env : {[DefaultGuiEnv EXCEPT !.load = e.load, !.infer = e.infer, !.text = e.text] :
                        e \in CaptionEnvs}]
        \cup [upload : {"image"},
              env : {[DefaultGuiEnv EXCEPT !.remote = r] : r \in SampleRemotes}]

\* load_models(): cached by st.cache_resource, so the objects are built once
\* and shared by every request
LoadModels(api_key) ==
    LET r == CaptionEnhancer_init("cloud", api_key, OneInitEnv)
    IN  /\ enhancer = NoObject
        /\ enhancer' = IF r.kind = "ok" THEN r.value ELSE enhancer
        /\ captioner' = NewCaptionModel
        /\ last' = [op |-> "load_models", api_key |-> api_key, out |-> r]
        /\ UNCHANGED <<sessions, fs, pipeline>>

\* a user uploads a file: the request runs from the upload to the finally clause
Upload(front_end, upload, env) ==
    LET r == process_uploaded_file(captioner, enhancer, fs, upload, env, front_end)
    IN  /\ enhancer # NoObject
        /\ captioner' = r.self
        /\ fs' = r.files
        /\ last' = [op |-> "upload", front_end |-> front_end, upload |-> upload,
                    env |-> env, before |-> fs,
                    out |-> [exit |-> r.exit, error |-> r.error, screen |-> r.screen,
                             calls |-> r.calls]]
        /\ UNCHANGED <<sessions, enhancer, pipeline>>

---------------------------------------------------------------------------
(* Concurrent requests.  Streamlit runs the request of every browser       *)
(* session in a thread of its own; the objects of load_models and the      *)
(* working directory are shared by all of them.  A request is followed     *)
(* through the accesses it makes to the shared file temp_path and to the   *)
(* shared CaptionModel; between two accesses any other request may run.    *)

NumSessions == 2
Sessions == 1..NumSessions
NoSession == 0

NewSessions ==
    [pc |-> [s \in Sessions |-> "uploaded"],
     decoded |-> [s \in Sessions |-> NoSession],
     captioned |-> [s \in Sessions |-> NoSession],
     error |-> [s \in Sessions |-> "none"],
     holds |-> NoSession,
     loads |-> 0]

Step(s, from, to) ==
    /\ sessions.pc[s] = from
    /\ last' = [op |-> "request", session |-> s, step |-> from, to |-> to]

\* image.save(temp_path): the file now holds the upload of this request
SessionSave(s) ==
    /\ enhancer # NoObject
    /\ Step(s, "uploaded", "_load_model")
    /\ fs' = image_save(fs, "ok")
    /\ sessions' = [sessions EXCEPT !.pc[s] = "_load_model", !.holds = s]
    /\ UNCHANGED <<captioner, enhancer, pipeline>>

\* captioner.generate(temp_path) enters _load_model: if self.model is not None: return
SessionLoadCheck(s) ==
    LET to == IF captioner.model # "None" THEN "os.path.exists" ELSE "from_pretrained"
    IN  /\ Step(s, "_load_model", to)
        /\ sessions' = [sessions EXCEPT !.pc[s] = to]
        /\ UNCHANGED <<fs, captioner, enhancer, pipeline>>

\* the rest of _load_model: the processor and the weights are loaded and
\* assigned to self.processor and self.model
SessionLoad(s) ==
    /\ Step(s, "from_pretrained", "os.path.exists")
    /\ captioner' = CaptionModel_load_model(NewCaptionModel, "ok").self
    /\ sessions' = [sessions EXCEPT !.pc[s] = "os.path.exists", !.loads = @ + 1]
    /\ UNCHANGED <<fs, enhancer, pipeline>>

\* if not os.path.exists(image_path): raise ImageNotFoundError(image_path)
SessionExists(s) ==
    LET found == exists(fs, temp_path)
        to == IF found THEN "Image.open" ELSE "finally"
    IN  /\ Step(s, "os.path.exists", to)
        /\ sessions' = [sessions EXCEPT
                           !.pc[s] = to,
                           !.error[s] = IF found THEN @ ELSE "ImageNotFoundError"]
        /\ UNCHANGED <<fs, captioner, enhancer, pipeline>>

\* Image.open(image_path).convert("RGB"): reads what the file holds now; an
\* exception becomes InvalidImageError
SessionOpen(s) ==
    LET found == exists(fs, temp_path)
        to == IF found THEN "inference" ELSE "finally"
    IN  /\ Step(s, "Image.open", to)
        /\ sessions' = [sessions EXCEPT
                           !.pc[s] = to,
                           !.decoded[s] = IF found THEN sessions.holds ELSE @,
                           !.error[s] = IF found THEN @ ELSE "InvalidImageError"]
        /\ UNCHANGED <<fs, captioner, enhancer, pipeline>>

\* the inference on the decoded image, enhancer.enhance and the result columns
SessionStages(s) ==
    /\ Step(s, "inference", "finally")
    /\ sessions' = [sessions EXCEPT !.pc[s] = "finally",
                                    !.captioned[s] = sessions.decoded[s]]
    /\ UNCHANGED <<fs, captioner, enhancer, pipeline>>

\* finally: if os.path.exists(temp_path): os.remove(temp_path)
SessionCleanup(s) ==
    /\ Step(s, "finally", "finished")
    /\ fs' = remove_temp(fs)
    /\ sessions' = [sessions EXCEPT !.pc[s] = "finished", !.holds = NoSession]
    /\ UNCHANGED <<captioner, enhancer, pipeline>>

---------------------------------------------------------------------------
(* Specifications.  Each component is driven by its own callers: every     *)
(* specification starts from Init and takes the calls of one component,    *)
(* with the inputs and the library outcomes drawn from the sets above.     *)

Init ==
    /\ fs = [p \in Files |->
                CASE p = "missing.jpg" -> "missing"
                  [] p = "corrupt.jpg" -> "corrupt"
                  [] p = temp_path -> "missing"
                  [] OTHER -> "valid"]
    /\ captioner = NewCaptionModel
    /\ enhancer = NoObject
    /\ pipeline = "unbuilt"
    /\ last = [op |-> "none"]
    /\ sessions = NewSessions

\* the pipeline orchestrator and its front end
NextPipeline ==
    \/ \E load \in PipelineLoads : BuildPipeline(load)
    \/ \E path \in Paths, kwargs \in Kwargs, env \in PipelineEnvs :
          GenerateCaption(path, kwargs, env)
SpecPipeline == Init /\ [][NextPipeline]_vars

\* the captioning stage
NextCaption ==
    \/ \E path \in Paths, env \in CaptionEnvs : Generate(path, env)
    \/ \E load \in LoadOutcomes : LoadModel(load)
SpecCaption == Init /\ [][NextCaption]_vars

\* batches of references on the captioning stage
NextBatch == \E items \in Batches, load \in BatchLoads : GenerateBatch(items, load)
SpecBatch == Init /\ [][NextBatch]_vars

\* the front end: load_models, then one request after the other
NextGui ==
    \/ \E api_key \in {"key", "None"} : LoadModels(api_key)
    \/ \E front_end \in FrontEnds, i \in GuiInputs : Upload(front_end, i.upload, i.env)
SpecGui == Init /\ [][NextGui]_vars

\* the front end with its requests running concurrently
NextSessions ==
    \/ LoadModels("key")
    \/ \E s \in Sessions :
          \/ SessionSave(s)
          \/ SessionLoadCheck(s)
          \/ SessionLoad(s)
          \/ SessionExists(s)
          \/ SessionOpen(s)
          \/ SessionStages(s)
          \/ SessionCleanup(s)
SpecSessions == Init /\ [][NextSessions]_vars

\* construction of the enhancement stage
NextConstruct == \E i \in ConstructInputs : Construct(i.model_type, i.api_key, i.env)
SpecConstruct == Init /\ [][NextConstruct]_vars

\* the enhancement stage, built with one listing
NextEnhance ==
    \/ \E model_type \in {"cloud", "local"} : Construct(model_type, "key", OneInitEnv)
    \/ \E i \in EnhanceInputs : Enhance(i.caption, i.remote)
SpecEnhance == Init /\ [][NextEnhance]_vars

\* the enhancement stage on every diagnostic text of a failing remote call
NextClassify ==
    \/ Construct("cloud", "key", OneInitEnv)
    \/ \E remote \in RemoteFailures : Enhance(LongCaption, remote)
SpecClassify == Init /\ [][NextClassify]_vars

---------------------------------------------------------------------------
(* Claims.                                                                 *)

Count(x, s) == Cardinality({i \in 1..Len(s) : s[i] = x})

\* the number of characters left once surrounding whitespace is removed
StrippedLen(s) ==
    LET solid == {i \in 1..Len(s) : s[i] # SPACE}
    IN  IF solid = {} THEN 0
        ELSE (CHOOSE i \in solid : \A j \in solid : j <= i)
                 - (CHOOSE i \in solid : \A j \in solid : i <= j) + 1

\* C1: generate_caption(image_path) on a reference that does not exist ends
\* with ImageNotFoundError, whatever the stages would do, and invokes neither
\* the captioning stage nor the enhancement stage.
C1_MissingImageFailsFast ==
    (last.op = "generate_caption" /\ last.kwargs = {} /\ fs[last.path] = "missing")
        => /\ last.out.kind = "ImageNotFoundError"
           /\ ~InSeq("caption_model.generate", last.out.calls)
           /\ ~InSeq("caption_enhancer.enhance", last.out.calls)

C1_Witness ==
    /\ last.op = "generate_caption"
    /\ last.kwargs = {}
    /\ fs[last.path] = "missing"
    /\ last.env.infer.raised = "OutOfMemoryError"
    /\ last.out.kind = "ImageNotFoundError"

\* C2: generate_caption takes an enhance flag; on an existing image whose
\* captioning succeeds, enhance=False returns exactly the base caption and
\* never invokes the enhancement stage, and enhance=True invokes the
\* enhancement stage exactly once, after captioning, and returns its result.
C2_EnhanceFlag ==
    (last.op = "generate_caption" /\ fs[last.path] = "valid" /\ last.env.infer.raised = "ok")
        => /\ <<"enhance", FALSE>> \in last.kwargs
                => /\ last.out.kind = "ok"
                   /\ last.out.value = last.env.text
                   /\ ~InSeq("caption_enhancer.enhance", last.out.calls)
           /\ <<"enhance", TRUE>> \in last.kwargs
                => /\ Count("caption_enhancer.enhance", last.out.calls) = 1
                   /\ Count("caption_model.generate", last.out.calls) = 1
                   /\ last.out.kind \in {"ok", "EnhancementError"}

\* C3: every failing generate_caption(image_path) call ends with a domain
\* error of the taxonomy, of the kind the failing stage raised; no failure
\* of another type leaves the pipeline.
C3_OnlyDomainErrors ==
    (last.op = "generate_caption" /\ last.kwargs = {} /\ last.out.kind # "ok")
        => /\ last.out.kind \in DomainErrors
           /\ LET c == app_CaptionModel_generate(fs, last.path, last.env)
              IN  c.kind # "ok" => last.out.kind = c.kind

\* C4: with a loaded model, generate answers a missing reference with
\* ImageNotFoundError and an undecodable one with InvalidImageError, and the
\* processor, model.generate and decode are invoked only after the existence
\* check and the decode of the image, so never in a call that ends with one
\* of these two errors.
C4_ChecksBeforeInference ==
    (last.op = "generate" /\ last.before.model # "None")
        => /\ fs[last.path] = "missing" => last.out.kind = "ImageNotFoundError"
           /\ fs[last.path] = "corrupt" => last.out.kind = "InvalidImageError"
           /\ last.out.kind \in {"ImageNotFoundError", "InvalidImageError"}
                => \A i \in 1..Len(InferSteps) : ~InSeq(InferSteps[i], last.out.calls)
           /\ \A k \in 1..Len(last.out.calls) :
                InSeq(last.out.calls[k], InferSteps)
                    => /\ SubSeq(last.out.calls, 1, 2) = <<"os.path.exists", "Image.open">>
                       /\ k > 2

C4_Witness ==
    /\ last.op = "generate"
    /\ last.before.model # "None"
    /\ fs[last.path] = "corrupt"
    /\ last.env.infer.raised = "ok"
    /\ last.out.kind = "InvalidImageError"

\* C5: once the model is loaded and the image exists and decodes, an
\* OutOfMemoryError of the inference step gives ResourceLimitError and every
\* other exception of the processor, model.generate or decode gives
\* CaptionGenerationError with the message 'Caption generation failed.'; the
\* step ends with no other kind.
C5_InferenceFailuresClassified ==
    (/\ last.op = "generate"
     /\ fs[last.path] = "valid"
     /\ (last.before.model # "None" \/ last.env.load = "ok"))
        => /\ last.env.infer.raised = "ok" => last.out.kind = "ok"
           /\ last.env.infer.raised = "OutOfMemoryError"
                => last.out.kind = "ResourceLimitError"
           /\ last.env.infer.raised \notin {"ok", "OutOfMemoryError"}
                => /\ last.out.kind = "CaptionGenerationError"
                   /\ last.out.message = <<"Caption generation failed.">>
           /\ last.out.kind \in {"ok", "ResourceLimitError", "CaptionGenerationError"}

C5_Witness ==
    /\ last.op = "generate"
    /\ fs[last.path] = "valid"
    /\ last.before.model = "None"
    /\ last.env.load = "ok"
    /\ last.env.infer = [step |-> 3, raised |-> "OutOfMemoryError"]
    /\ last.out.kind = "ResourceLimitError"

\* C6: enhance returns a caption that is absent, empty, whitespace-only or
\* shorter than 3 characters once surrounding whitespace is stripped as it
\* is, raises nothing and does not invoke the remote model.
C6_ShortCaptionPassesThrough ==
    (/\ last.op = "enhance"
     /\ (last.caption = None \/ StrippedLen(last.caption) < 3))
        => /\ last.out.kind = "ok"
           /\ last.out.value = last.caption
           /\ last.out.calls = <<>>

C6_Witness ==
    /\ last.op = "enhance"
    /\ enhancer.model_type = "cloud"
    /\ enhancer.model # "None"
    /\ last.caption = <<SPACE, "a", SPACE>>
    /\ last.remote = [type |-> "text", text |-> <<"a">>]
    /\ last.out.value = last.caption

\* C7: a failing remote call is classified from the lower-cased diagnostic
\* text: 'api_key' or '403' gives APIConfigurationError; else 'quota' or
\* '429' gives ResourceLimitError; else 'network' or 'connection' gives
\* ModelNetworkError; else EnhancementError.  The earliest matching rule
\* decides.
C7_ClassificationPrecedence ==
    (last.op = "enhance" /\ last.remote.type = "raise" /\ last.out.calls # <<>>)
        => LET m == lower(last.remote.text)
               auth == contains(m, <<"a","p","i","_","k","e","y">>)
                          \/ contains(m, <<"4","0","3">>)
               quota == contains(m, <<"q","u","o","t","a">>) \/ contains(m, <<"4","2","9">>)
               net == contains(m, <<"n","e","t","w","o","r","k">>)
                         \/ contains(m, <<"c","o","n","n","e","c","t","i","o","n">>)
           IN  /\ auth => last.out.kind = "APIConfigurationError"
               /\ (~auth /\ quota) => last.out.kind = "ResourceLimitError"
               /\ (~auth /\ ~quota /\ net) => last.out.kind = "ModelNetworkError"
               /\ (~auth /\ ~quota /\ ~net) => last.out.kind = "EnhancementError"

C7_Witness ==
    /\ last.op = "enhance"
    /\ last.remote.type = "raise"
    /\ last.remote.text = <<"Q","u","o","t","a">> \o <<"A","P","I","_","K","E","Y">>
    /\ last.out.kind = "APIConfigurationError"

\* C8: a string enhance computes from the text the remote model returns
\* holds no double-quote character and neither starts nor ends with
\* whitespace, wherever the quotes and the whitespace stand in that text.
C8_CleanedOutput ==
    (/\ last.op = "enhance"
     /\ last.out.kind = "ok"
     /\ last.out.calls # <<>>
     /\ last.remote.type = "text"
     /\ last.remote.text # <<>>)
        => /\ ~InSeq(QUOTE, last.out.value)
           /\ StrippedLen(last.out.value) = Len(last.out.value)

\* C9: constructing a cloud enhancer either succeeds with a selected model
\* or raises APIConfigurationError: a missing credential raises it before
\* the remote service is configured or queried, an empty list of usable
\* models raises it, and so does every other failure; no cloud enhancer
\* is left without a model.
C9_ConstructOrConfigurationError ==
    /\ enhancer.model_type = "cloud" => enhancer.model # "None"
    /\ (last.op = "CaptionEnhancer" /\ last.model_type = "cloud")
        => /\ \/ /\ last.out.kind = "ok"
                 /\ enhancer = last.out.value
                 /\ enhancer.model # "None"
              \/ last.out.kind = "APIConfigurationError"
           /\ last.api_key \in {"None", ""}
                => /\ last.out.kind = "APIConfigurationError"
                   /\ last.out.calls = <<"getenv">>
           /\ (/\ last.api_key = "key"
               /\ last.env.configure = "ok"
               /\ last.env.list_models = "ok"
               /\ available_models(last.env.listing) = <<>>)
                => last.out.kind = "APIConfigurationError"

C9_Witness ==
    /\ last.op = "CaptionEnhancer"
    /\ last.model_type = "cloud"
    /\ last.api_key = "key"
    /\ last.env.configure = "ok"
    /\ last.env.list_models = "ok"
    /\ last.env.listing # <<>>
    /\ available_models(last.env.listing) = <<>>
    /\ last.out.kind = "APIConfigurationError"

\* C10: for a non-empty list of available models the selected model is the
\* first name of the priority list that is available, wherever it stands in
\* the list, and the first available model when no priority name is
\* available; it is always one of the available models.
C10_PrioritySelection ==
    (last.op = "CaptionEnhancer" /\ last.model_type = "cloud" /\ last.out.kind = "ok")
        => LET avail == available_models(last.env.listing)
               sel == last.out.value.model
               pri == {i \in 1..Len(priority_list) : InSeq(priority_list[i], avail)}
           IN  /\ avail # <<>>
               /\ InSeq(sel, avail)
               /\ \A i \in pri : (\A j \in pri : i <= j) => sel = priority_list[i]
               /\ pri = {} => sel = avail[1]

C10_Witness ==
    /\ last.op = "CaptionEnhancer"
    /\ last.model_type = "cloud"
    /\ last.out.kind = "ok"
    /\ Len(last.env.listing) = 3
    /\ last.env.listing[1] = [name |-> priority_list[1], generateContent |-> FALSE]
    /\ last.env.listing[2].name = "models/gemma-3"
    /\ last.env.listing[3].name = priority_list[3]
    /\ last.out.value.model = priority_list[3]

\* C11: enhance never silently falls back to the base caption: on a cloud
\* enhancer, for a caption of 3 or more characters after stripping, the call
\* either returns the text the remote model produced or ends with a
\* DomainError; an empty or missing response text never makes it return the
\* input caption.
C11_NoSilentFallback ==
    (/\ last.op = "enhance"
     /\ enhancer.model_type = "cloud"
     /\ last.caption # None
     /\ StrippedLen(last.caption) >= MinCaptionLen)
        => \/ last.out.kind \in DomainErrors
           \/ /\ last.out.kind = "ok"
              /\ last.remote.type = "text"
              /\ last.remote.text # <<>>
              /\ last.out.value = clean_response(last.remote.text)

\* the error generate ends with on one reference once the model is loaded
ReferenceError(item) ==
    IF fs[item.path] = "missing" THEN "ImageNotFoundError"
    ELSE IF fs[item.path] = "corrupt" THEN "InvalidImageError"
    ELSE IF item.infer.raised = "OutOfMemoryError" THEN "ResourceLimitError"
    ELSE IF item.infer.raised # "ok" THEN "CaptionGenerationError"
    ELSE "ok"

\* C12: generate_batch processes the references in list order with the
\* single-image contract: on success it returns one caption per reference
\* in the same order; when reference i is the first to fail, the call ends
\* with exactly that reference's DomainError, returns no result for the
\* references before i, and no reference after i is checked, decoded or
\* passed to the model.
C12_BatchInOrderFailFast ==
    (last.op = "generate_batch")
        => LET items == last.items
               unloadable == /\ items # <<>>
                             /\ last.before.model = "None"
                             /\ last.load # "ok"
               failing == {i \in 1..Len(items) : ReferenceError(items[i]) # "ok"}
               out == last.out
           IN  IF unloadable
               THEN /\ out.kind = "CaptionGenerationError"
                    /\ out.value = None
                    /\ Count("os.path.exists", out.calls) = 0
               ELSE IF failing = {}
               THEN /\ out.kind = "ok"
                    /\ Len(out.value) = Len(items)
                    /\ \A i \in 1..Len(items) : out.value[i] = items[i].text
               ELSE LET i == CHOOSE k \in failing : \A j \in failing : k <= j
                    IN  /\ out.kind = ReferenceError(items[i])
                        /\ out.kind = "ImageNotFoundError" => out.message = <<items[i].path>>
                        /\ out.value = None
                        /\ Count("os.path.exists", out.calls) = i
                        /\ Count("Image.open", out.calls) <= i
                        /\ Count("model.generate", out.calls) <= i

C12_Witness ==
    /\ last.op = "generate_batch"
    /\ Len(last.items) = 2
    /\ last.items[1].path = "valid.jpg"
    /\ last.items[1].infer.raised = "ok"
    /\ last.items[2].path = "missing.jpg"
    /\ last.out.kind = "ImageNotFoundError"
    /\ last.out.message = <<"missing.jpg">>
    /\ Count("model.generate", last.out.calls) = 1

\* C13: model initialization is idempotent and classified: a _load_model
\* call (alone or at the start of generate) on an unloaded CaptionModel that
\* fails raises CaptionGenerationError and leaves the model unloaded, so that
\* a later call attempts the load again; once a load has succeeded, every
\* later call performs no load and leaves model and processor unchanged.
C13_LoadIdempotent ==
    (last.op \in {"_load_model", "generate"})
        => LET loads == Count("BlipProcessor.from_pretrained", last.out.calls)
                          + Count("BlipForConditionalGeneration.from_pretrained",
                                  last.out.calls)
           IN  /\ last.before.model # "None"
                    => /\ loads = 0
                       /\ captioner = last.before
               /\ (last.before.model = "None" /\ last.env.load # "ok")
                    => /\ last.out.kind = "CaptionGenerationError"
                       /\ captioner.model = "None"
               /\ (last.before.model = "None" /\ last.env.load = "ok")
                    => /\ loads = 2
                       /\ captioner.model # "None"
                       /\ captioner.processor # "None"

\* C14: the temporary image file of a request is released on every exit
\* path: whether captioning succeeds or fails, enhancement fails, an
\* unexpected failure occurs or saving the upload itself fails, temp_path
\* does not exist once the request has finished.
C14_TempFileReleased ==
    last.op = "upload" => ~exists(fs, temp_path)

\* the screen holds a widget of one of the given kinds whose text contains
\* the given parts
Shown(screen, widgets, parts) ==
    \E i \in 1..Len(screen) :
        /\ screen[i].widget \in widgets
        /\ contains(screen[i].text, parts)

\* C15: for every DomainError that reaches the front end from captioning or
\* enhancement, the screen shows an error banner containing the error's
\* message and, whenever the error carries details, also shows those
\* details.
C15_DetailsRendered ==
    (last.op = "upload" /\ last.out.error.kind \in DomainErrors)
        => LET e == last.out.error
           IN  /\ Shown(last.out.screen, {"error"}, e.message)
               /\ (e.details # None /\ e.details # <<>>)
                    => Shown(last.out.screen, {"error", "write"}, e.details)

\* C16: every Caption a stage returns on success is a non-empty string:
\* generate never returns an empty caption, and enhance called on a base
\* caption of 3 or more characters never returns an empty string, whatever
\* text the underlying model produces.
C16_CaptionsNonEmpty ==
    /\ (last.op = "generate" /\ last.out.kind = "ok") => last.out.value # <<>>
    /\ (/\ last.op = "enhance"
        /\ last.out.kind = "ok"
        /\ last.caption # None
        /\ Len(last.caption) >= MinCaptionLen)
            => last.out.value # <<>>

\* C17: when several requests run concurrently, each request's base caption
\* is computed from the image that request uploaded: no request captions
\* the image of another request, and none fails with ImageNotFoundError
\* because another request removed the file first.
C17_OwnImageCaptioned ==
    \A s \in Sessions :
        /\ sessions.captioned[s] \in {NoSession, s}
        /\ sessions.error[s] # "ImageNotFoundError"

\* C18: on the CaptionModel shared by all requests the processor and the
\* weights are loaded at most once, also when several generate calls run
\* concurrently before the first load has finished.
C18_LoadedAtMostOnce ==
    sessions.loads <= 1

\* C19: generate called with a reference that does not exist ends with
\* ImageNotFoundError in every state of the model (loaded, not yet loaded,
\* impossible to load): the existence check comes before model loading, so
\* a missing image is never reported as CaptionGenerationError and never
\* triggers a model load.
C19_MissingImageBeforeLoad ==
    (last.op = "generate" /\ ~exists(fs, last.path))
        => /\ last.out.kind = "ImageNotFoundError"
           /\ ~InSeq("BlipProcessor.from_pretrained", last.out.calls)
           /\ captioner = last.before

====
